---------------------------- MODULE Spec2Model ----------------------------
(* A model of the chess rules engine in src/game_logic.py.                 *)
(*                                                                         *)
(* A Cell is a pair <<x, y>> (file, rank), a Move a pair <<from, to>>.     *)
(* A Figure is a record; a State is a record of the fields of class State. *)
(* Python objects are modelled by value.  The one object that the code     *)
(* really shares between a State and its copies is the list State.moves    *)
(* (copy.copy(self) in State.get_copy copies the reference, and nothing    *)
(* replaces it), so that list is threaded through every operator as the    *)
(* separate argument `mv` and returned in the field `moves` of the result. *)
(* An operator that can raise returns [ok, st, moves]: ok = FALSE stands   *)
(* for the exception, st is the State object as the operator left it.      *)
EXTENDS Integers, Sequences, FiniteSets, TLC

VARIABLES
    board,                  \* State.board of the authoritative State
    moves,                  \* State.moves (the list object shared with copies)
    number_of_moves,        \* State.number_of_moves (the ply counter)
    white_king_position,    \* State._white_king_position
    black_king_position,    \* State._black_king_position
    is_game_over,           \* State.is_game_over
    winning_side,           \* State.winning_side
    lastCall,               \* history: the last call made on the State and its outcome
    accepted,               \* history: the moves applyMove has accepted, in order
    otherCalls,             \* history: the number of calls that committed no move
    line                    \* the opening the caller draws its calls from

vars == <<board, moves, number_of_moves, white_king_position, black_king_position,
          is_game_over, winning_side, lastCall, accepted, otherCalls, line>>

-----------------------------------------------------------------------------
(* Values *)

Cells == (1..8) \X (1..8)

InBoard(x, y) ==
    x >= 1 /\ x <= 8 /\ y >= 1 /\ y <= 8

None ==
    [kind |-> "none", color |-> 0, pos |-> <<0, 0>>, moves |-> <<>>, number_of_moves |-> 0]

Figure(kind, pos, color) ==
    [kind |-> kind, color |-> color, pos |-> pos, moves |-> <<>>, number_of_moves |-> 0]

EnumeratedMove(cell_from, cell_to, move_number) ==
    [cell_from |-> cell_from, cell_to |-> cell_to, move_number |-> move_number]

sign(number) ==
    IF number > 0 THEN 1 ELSE IF number < 0 THEN -1 ELSE 0

abs(number) ==
    IF number < 0 THEN -number ELSE number

min(a, b) ==
    IF a <= b THEN a ELSE b

max(a, b) ==
    IF a >= b THEN a ELSE b

letter(figure) ==
    IF figure.color = 1
    THEN CASE figure.kind = "k" -> "K" [] figure.kind = "q" -> "Q"
           [] figure.kind = "b" -> "B" [] figure.kind = "h" -> "H"
           [] figure.kind = "r" -> "R" [] figure.kind = "p" -> "P"
    ELSE figure.kind

is_initial_position(figure) ==
    figure.number_of_moves = 0

Figure_last_move(figure) ==
    figure.moves[figure.number_of_moves]

\* State.initial_position, one sequence of letters per line of the text
initial_position ==
    << << "r", "h", "b", "q", "k", "b", "h", "r" >>,
       << "p", "p", "p", "p", "p", "p", "p", "p" >>,
       << ".", ".", ".", ".", ".", ".", ".", "." >>,
       << ".", ".", ".", ".", ".", ".", ".", "." >>,
       << ".", ".", ".", ".", ".", ".", ".", "." >>,
       << ".", ".", ".", ".", ".", ".", ".", "." >>,
       << "P", "P", "P", "P", "P", "P", "P", "P" >>,
       << "R", "H", "B", "Q", "K", "B", "H", "R" >> >>

\* letter.lower() -> class, letter.isupper() -> color
LETTER_TO_FIGURE ==
    [l \in {"k", "q", "b", "h", "r", "p", "K", "Q", "B", "H", "R", "P"} |->
        CASE l \in {"k", "K"} -> "k" [] l \in {"q", "Q"} -> "q"
          [] l \in {"b", "B"} -> "b" [] l \in {"h", "H"} -> "h"
          [] l \in {"r", "R"} -> "r" [] l \in {"p", "P"} -> "p"]

_get_figure_by_letter(current_position, l) ==
    Figure(LETTER_TO_FIGURE[l], current_position,
           IF l \in {"K", "Q", "B", "H", "R", "P"} THEN 1 ELSE -1)

\* board[8 - y - 1][x] = figure of text line y, column x (0-based in the code)
board_from_text(text_board) ==
    [c \in Cells |->
        LET l == text_board[9 - c[2]][c[1]]
        IN  IF l = "." THEN None ELSE _get_figure_by_letter(c, l)]

-----------------------------------------------------------------------------
(* State: queries *)

get_by_cell(st, cell) ==
    st.board[cell]

get_king_position_by_color(st, color) ==
    IF color = 1 THEN st.white_king_position ELSE st.black_king_position

change_king_position_by_color(st, cell, color) ==
    IF color = 1
    THEN [st EXCEPT !.white_king_position = cell]
    ELSE [st EXCEPT !.black_king_position = cell]

whose_move(st) ==
    IF st.number_of_moves % 2 = 0 THEN 1 ELSE -1

get_copy(st) ==
    [st EXCEPT !.is_original = FALSE]

\* the rows of board_to_str, rank 8 first; each row is the sequence of its letters
board_to_str(st) ==
    [i \in 1..8 |-> [x \in 1..8 |->
        LET figure == get_by_cell(st, <<x, 9 - i>>)
        IN  IF figure = None THEN "." ELSE letter(figure)]]

-----------------------------------------------------------------------------
(* Attack patterns *)

King_is_cell_under_attack(figure, cell) ==
    IF figure.pos = cell THEN FALSE
    ELSE abs(figure.pos[1] - cell[1]) <= 1 /\ abs(figure.pos[2] - cell[2]) <= 1

\* the loop "while True: x += vector[0]; y += vector[1]; ..." of Queen and Bishop;
\* Cell(x, y) raises outside the board
RECURSIVE DiagonalScan(_, _, _, _, _, _)
DiagonalScan(st, x, y, vx, vy, cell) ==
    LET nx == x + vx
        ny == y + vy
    IN  IF ~InBoard(nx, ny) THEN "raise"
        ELSE IF <<nx, ny>> = cell THEN "clear"
        ELSE IF get_by_cell(st, <<nx, ny>>) # None THEN "blocked"
        ELSE DiagonalScan(st, nx, ny, vx, vy, cell)

\* a vertical scan that starts one square late and so skips the square next
\* to the lower end of the path
VerticalClear_skipping_first(st, figure, cell) ==
    LET y_from == min(figure.pos[2], cell[2])
        y_to == max(figure.pos[2], cell[2])
    IN  \A y \in (y_from + 2)..(y_to - 1) : get_by_cell(st, <<cell[1], y>>) = None

VerticalClear(st, figure, cell) ==
    LET y_from == min(figure.pos[2], cell[2])
        y_to == max(figure.pos[2], cell[2])
    IN  \A y \in (y_from + 1)..(y_to - 1) : get_by_cell(st, <<cell[1], y>>) = None

HorizontalClear(st, figure, cell) ==
    LET x_from == min(figure.pos[1], cell[1])
        x_to == max(figure.pos[1], cell[1])
    IN  \A x \in (x_from + 1)..(x_to - 1) : get_by_cell(st, <<x, cell[2]>>) = None

Bishop_is_cell_under_attack(st, figure, cell) ==
    IF figure.pos = cell THEN FALSE
    ELSE IF abs(figure.pos[1] - cell[1]) # abs(figure.pos[2] - cell[2]) THEN FALSE
    ELSE DiagonalScan(st, figure.pos[1], figure.pos[2],
                      sign(cell[1] - figure.pos[1]), sign(cell[2] - figure.pos[2]),
                      cell) = "clear"

Rook_is_cell_under_attack(st, figure, cell) ==
    IF figure.pos = cell THEN FALSE
    ELSE IF figure.pos[1] = cell[1] THEN VerticalClear(st, figure, cell)
    ELSE IF figure.pos[2] = cell[2] THEN HorizontalClear(st, figure, cell)
    ELSE FALSE

Queen_is_cell_under_attack(st, figure, cell) ==
    IF figure.pos = cell THEN FALSE
    ELSE IF abs(figure.pos[1] - cell[1]) = abs(figure.pos[2] - cell[2])
    THEN DiagonalScan(st, figure.pos[1], figure.pos[2],
                      sign(cell[1] - figure.pos[1]), sign(cell[2] - figure.pos[2]),
                      cell) = "clear"
    ELSE IF figure.pos[1] = cell[1] THEN VerticalClear(st, figure, cell)
    ELSE IF figure.pos[2] = cell[2] THEN HorizontalClear(st, figure, cell)
    ELSE FALSE

Knight_is_cell_under_attack(figure, cell) ==
    LET dx == abs(figure.pos[1] - cell[1])
        dy == abs(figure.pos[2] - cell[2])
    IN  <<min(dx, dy), max(dx, dy)>> = <<1, 2>>

Pawn_is_cell_under_attack(figure, cell) ==
    abs(figure.pos[1] - cell[1]) = 1 /\ figure.pos[2] = cell[2] + figure.color

Figure_is_cell_under_attack(st, figure, cell) ==
    CASE figure.kind = "k" -> King_is_cell_under_attack(figure, cell)
      [] figure.kind = "q" -> Queen_is_cell_under_attack(st, figure, cell)
      [] figure.kind = "b" -> Bishop_is_cell_under_attack(st, figure, cell)
      [] figure.kind = "h" -> Knight_is_cell_under_attack(figure, cell)
      [] figure.kind = "r" -> Rook_is_cell_under_attack(st, figure, cell)
      [] figure.kind = "p" -> Pawn_is_cell_under_attack(figure, cell)
      [] OTHER -> FALSE

\* color is the attacker's color
State_is_cell_under_attack(st, cell, color) ==
    \E c \in Cells :
        LET figure == get_by_cell(st, c)
        IN  /\ figure # None
            /\ figure.color = color
            /\ Figure_is_cell_under_attack(st, figure, cell)

_is_king_in_check(st, color) ==
    State_is_cell_under_attack(st, get_king_position_by_color(st, color), color * (-1))

-----------------------------------------------------------------------------
(* Moves *)

\* an exception leaving the operator, with its message
Raise(st, mv, error) ==
    [ok |-> FALSE, st |-> st, moves |-> mv, error |-> error]

Return(st, mv) ==
    [ok |-> TRUE, st |-> st, moves |-> mv, error |-> ""]

\* f"It's not {COLORS[figure.color]} turn."
ItsNotTurn(color) ==
    IF color = 1 THEN "It's not white turn." ELSE "It's not black turn."

FromCellHasNotFigure ==
    "From cell has not figure on it."

WillBeInCheck ==
    "You will be in check, you cannot make such move."

FiguresBetween ==
    "You cannot make castling while there are figures between your rook and king."

KingInCheckNoCastling ==
    "Your king in check, you cannot make castling"

PathUnderAttack ==
    "Cell on king's path in under attack, you cannot make castling in this situation."

NotEnPassant ==
    "You cannot make such move, it's not En passant situation."

CellOutsideBoard ==
    "Cell must lie within the chess board."

\* the AttributeError of an attribute assignment on None
NoneHasNoAttribute ==
    "'NoneType' object has no attribute '_current_position'"

\* Figure._make_move with an _add_move that forgets the State's ply counter
Figure__make_move_uncounted(st, mv, figure, cell) ==
    LET Add(move) ==
            Return([st EXCEPT !.board = [[st.board EXCEPT ![cell] =
                                            [figure EXCEPT
                                                !.pos = cell,
                                                !.moves = Append(figure.moves, move),
                                                !.number_of_moves = figure.number_of_moves + 1]]
                                            EXCEPT ![figure.pos] = None]],
                   Append(mv, move))
    IN  Add(EnumeratedMove(figure.pos, cell, st.number_of_moves + 1))

\* Figure._make_move with Figure._add_move inlined: the replacement figure gets
\* its own copy of the figure's history; the State's list is appended in place
Figure__make_move(st, mv, figure, cell) ==
    LET Add(move) ==
            Return([st EXCEPT !.number_of_moves = st.number_of_moves + 1,
                              !.board = [[st.board EXCEPT ![cell] =
                                            [figure EXCEPT
                                                !.pos = cell,
                                                !.moves = Append(figure.moves, move),
                                                !.number_of_moves = figure.number_of_moves + 1]]
                                            EXCEPT ![figure.pos] = None]],
                   Append(mv, move))
    IN  Add(EnumeratedMove(figure.pos, cell, st.number_of_moves + 1))

State__make_move(st, mv, move) ==
    IF get_by_cell(st, move[1]) = None THEN Raise(st, mv, FromCellHasNotFigure)
    ELSE Figure__make_move(st, mv, get_by_cell(st, move[1]), move[2])

\* returns the copy (field st) and the list the copy shares with self._state
Figure__make_move_on_copied(st, mv, figure, cell) ==
    State__make_move(get_copy(st), mv, <<figure.pos, cell>>)

\* a relocation that leaves the piece standing on `source` as well
RelocateRook_keeping_source(st, source, target) ==
    [st EXCEPT !.board = [[st.board EXCEPT ![target] = st.board[source]]
                             EXCEPT ![target].pos = target]]

\* a plain relocation of the piece on `source` to `target` (lines 182-184, 190-192):
\* the piece keeps its history
RelocateRook(st, source, target) ==
    [st EXCEPT !.board = [[[st.board EXCEPT ![target] = st.board[source]]
                              EXCEPT ![target].pos = target]
                              EXCEPT ![source] = None]]

\* lines 174-193 of King.make_move: castling towards the rook `figure`
Castling(st, mv, self, figure, rook_new_position, king_new_position) ==
    IF State_is_cell_under_attack(st, rook_new_position, self.color * (-1))
    THEN Raise(st, mv, PathUnderAttack)
    ELSE
      LET Commit(done) ==
              IF get_by_cell(done.st, figure.pos) = None
              THEN Raise(change_king_position_by_color(done.st, king_new_position,
                                                       self.color),
                         done.moves, NoneHasNoAttribute)
              ELSE Return(RelocateRook(
                              change_king_position_by_color(done.st, king_new_position,
                                                            self.color),
                              figure.pos, rook_new_position),
                          done.moves)
          Checked(made) ==
              IF ~made.ok THEN Raise(st, made.moves, FromCellHasNotFigure)
              ELSE IF get_by_cell(made.st, figure.pos) = None
              THEN Raise(st, made.moves, NoneHasNoAttribute)
              ELSE IF _is_king_in_check(
                          RelocateRook(
                              change_king_position_by_color(made.st, king_new_position,
                                                            self.color),
                              figure.pos, rook_new_position),
                          self.color)
              THEN Raise(st, made.moves, WillBeInCheck)
              ELSE Commit(Figure__make_move(st, made.moves, self, king_new_position))
      IN  Checked(Figure__make_move_on_copied(st, mv, self, king_new_position))

King_make_move(st, mv, self, cell) ==
    LET Decide(figure, dir) ==
            IF figure # None /\ figure.kind = "r" /\ is_initial_position(figure)
               /\ is_initial_position(self)
            THEN \* castling
                 IF ~HorizontalClear(st, self, cell)
                 THEN Raise(st, mv, FiguresBetween)
                 ELSE IF _is_king_in_check(st, self.color)
                 THEN Raise(st, mv, KingInCheckNoCastling)
                 ELSE IF ~InBoard(self.pos[1] + dir, cell[2])
                         \/ ~InBoard(self.pos[1] + 2 * dir, cell[2])
                 THEN Raise(st, mv, CellOutsideBoard)
                 ELSE Castling(st, mv, self, figure,
                               <<self.pos[1] + dir, cell[2]>>,
                               <<self.pos[1] + 2 * dir, cell[2]>>)
            ELSE \* not castling
                 IF ~King_is_cell_under_attack(self, cell)
                 THEN Raise(st, mv, "Kings don't move like that.")
                 ELSE IF figure # None /\ figure.color = self.color
                 THEN Raise(st, mv, "You cannot beat your own figure.")
                 ELSE
                   LET Commit(done) ==
                           Return(change_king_position_by_color(done.st, cell, self.color),
                                  done.moves)
                       Checked(made) ==
                           IF ~made.ok THEN Raise(st, made.moves, FromCellHasNotFigure)
                           ELSE IF _is_king_in_check(
                                       change_king_position_by_color(made.st, cell,
                                                                     self.color),
                                       self.color)
                           THEN Raise(st, made.moves, WillBeInCheck)
                           ELSE Commit(Figure__make_move(st, made.moves, self, cell))
                   IN  Checked(Figure__make_move_on_copied(st, mv, self, cell))
    IN  Decide(get_by_cell(st, cell), sign(cell[1] - self.pos[1]))

Queen_make_move(st, mv, self, cell) ==
    IF ~Queen_is_cell_under_attack(st, self, cell)
    THEN Raise(st, mv, "Queens don't move like that.")
    ELSE LET Checked(made) ==
                 IF ~made.ok THEN Raise(st, made.moves, FromCellHasNotFigure)
                 ELSE IF _is_king_in_check(made.st, self.color)
                 THEN Raise(st, made.moves, WillBeInCheck)
                 ELSE Figure__make_move(st, made.moves, self, cell)
         IN  Checked(Figure__make_move_on_copied(st, mv, self, cell))

\* a bishop move whose replacement figure records the new move only, dropping
\* the history the bishop had
Bishop_make_move_dropping_history(st, mv, self, cell) ==
    IF ~Bishop_is_cell_under_attack(st, self, cell)
    THEN Raise(st, mv, "Bishops don't move like that.")
    ELSE LET Checked(made) ==
                 IF ~made.ok THEN Raise(st, made.moves, FromCellHasNotFigure)
                 ELSE IF _is_king_in_check(made.st, self.color)
                 THEN Raise(st, made.moves, WillBeInCheck)
                 ELSE Figure__make_move(st, made.moves, [self EXCEPT !.moves = <<>>], cell)
         IN  Checked(Figure__make_move_on_copied(st, mv, self, cell))

Bishop_make_move(st, mv, self, cell) ==
    IF ~Bishop_is_cell_under_attack(st, self, cell)
    THEN Raise(st, mv, "Bishops don't move like that.")
    ELSE LET Checked(made) ==
                 IF ~made.ok THEN Raise(st, made.moves, FromCellHasNotFigure)
                 ELSE IF _is_king_in_check(made.st, self.color)
                 THEN Raise(st, made.moves, WillBeInCheck)
                 ELSE Figure__make_move(st, made.moves, self, cell)
         IN  Checked(Figure__make_move_on_copied(st, mv, self, cell))

\* a knight move that leaves a knight standing on the source cell as well
Knight_make_move_leaving_copy(st, mv, self, cell) ==
    IF ~Knight_is_cell_under_attack(self, cell)
    THEN Raise(st, mv, "Knights don't move like that.")
    ELSE LET Kept(done) ==
                 IF done.ok THEN [done EXCEPT !.st.board[self.pos] = self] ELSE done
             Checked(made) ==
                 IF ~made.ok THEN Raise(st, made.moves, FromCellHasNotFigure)
                 ELSE IF _is_king_in_check(made.st, self.color)
                 THEN Raise(st, made.moves, WillBeInCheck)
                 ELSE Kept(Figure__make_move(st, made.moves, self, cell))
         IN  Checked(Figure__make_move_on_copied(st, mv, self, cell))

Knight_make_move(st, mv, self, cell) ==
    IF ~Knight_is_cell_under_attack(self, cell)
    THEN Raise(st, mv, "Knights don't move like that.")
    ELSE LET Checked(made) ==
                 IF ~made.ok THEN Raise(st, made.moves, FromCellHasNotFigure)
                 ELSE IF _is_king_in_check(made.st, self.color)
                 THEN Raise(st, made.moves, WillBeInCheck)
                 ELSE Figure__make_move(st, made.moves, self, cell)
         IN  Checked(Figure__make_move_on_copied(st, mv, self, cell))

Rook_make_move(st, mv, self, cell) ==
    IF ~Rook_is_cell_under_attack(st, self, cell)
    THEN Raise(st, mv, "Rooks don't move like that.")
    ELSE LET Checked(made) ==
                 IF ~made.ok THEN Raise(st, made.moves, FromCellHasNotFigure)
                 ELSE IF _is_king_in_check(made.st, self.color)
                 THEN Raise(st, made.moves, WillBeInCheck)
                 ELSE Figure__make_move(st, made.moves, self, cell)
         IN  Checked(Figure__make_move_on_copied(st, mv, self, cell))

\* a promotion that gives the Queen an empty history
transform_to_queen_fresh(st, cell) ==
    [st EXCEPT !.board[get_by_cell(st, cell).pos] =
        Figure("q", get_by_cell(st, cell).pos, get_by_cell(st, cell).color)]

\* called on the figure standing on `cell`; the Queen shares the pawn's history
transform_to_queen(st, cell) ==
    [st EXCEPT !.board[get_by_cell(st, cell).pos] =
        [Figure("q", get_by_cell(st, cell).pos, get_by_cell(st, cell).color)
            EXCEPT !.moves = get_by_cell(st, cell).moves,
                   !.number_of_moves = get_by_cell(st, cell).number_of_moves]]

\* a pawn step that tries the move on the State itself instead of on a copy
PawnStep_in_place(st, mv, self, cell) ==
    LET Checked(done, is_transformation) ==
            IF _is_king_in_check(IF is_transformation
                                 THEN transform_to_queen(done.st, cell)
                                 ELSE done.st,
                                 self.color)
            THEN Raise(done.st, done.moves, WillBeInCheck)
            ELSE IF is_transformation
            THEN Return(transform_to_queen(done.st, cell), done.moves)
            ELSE done
    IN  Checked(Figure__make_move(st, mv, self, cell),
                (cell[2] = 8 /\ self.color = 1) \/ (cell[2] = 1 /\ self.color = -1))

\* lines 393, 399-408 and 419-429: simulate on a copy, then commit, promoting if due
PawnStep(st, mv, self, cell) ==
    LET Commit(done, is_transformation) ==
            IF is_transformation
            THEN Return(transform_to_queen(done.st, cell), done.moves)
            ELSE done
        Checked(made, is_transformation) ==
            IF ~made.ok THEN Raise(st, made.moves, FromCellHasNotFigure)
            ELSE IF _is_king_in_check(IF is_transformation
                                      THEN transform_to_queen(made.st, cell)
                                      ELSE made.st,
                                      self.color)
            THEN Raise(st, made.moves, WillBeInCheck)
            ELSE Commit(Figure__make_move(st, made.moves, self, cell), is_transformation)
    IN  Checked(Figure__make_move_on_copied(st, mv, self, cell),
                (cell[2] = 8 /\ self.color = 1) \/ (cell[2] = 1 /\ self.color = -1))

\* the en passant branch without the comparison of the ply counter to the
\* number of the taken pawn's move
EnPassant_any_time(st, mv, self, cell, taken) ==
    IF \/ taken = None
       \/ taken.color = self.color
       \/ taken.kind # "p"
       \/ taken.number_of_moves # 1
    THEN Raise(st, mv, NotEnPassant)
    ELSE LET Commit(done) ==
                 Return([done.st EXCEPT !.board[taken.pos] = None], done.moves)
             Checked(made) ==
                 IF ~made.ok THEN Raise(st, made.moves, FromCellHasNotFigure)
                 ELSE IF _is_king_in_check([made.st EXCEPT !.board[taken.pos] = None],
                                           self.color)
                 THEN Raise(st, made.moves, WillBeInCheck)
                 ELSE Commit(Figure__make_move(st, made.moves, self, cell))
         IN  Checked(Figure__make_move_on_copied(st, mv, self, cell))

\* lines 431-441 of Pawn.make_move; `taken` is the figure beside the pawn
EnPassant(st, mv, self, cell, taken) ==
    IF \/ taken = None
       \/ taken.color = self.color
       \/ taken.kind # "p"
       \/ taken.number_of_moves # 1
       \/ st.number_of_moves # Figure_last_move(taken).move_number
    THEN Raise(st, mv, NotEnPassant)
    ELSE LET Commit(done) ==
                 Return([done.st EXCEPT !.board[taken.pos] = None], done.moves)
             Checked(made) ==
                 IF ~made.ok THEN Raise(st, made.moves, FromCellHasNotFigure)
                 ELSE IF _is_king_in_check([made.st EXCEPT !.board[taken.pos] = None],
                                           self.color)
                 THEN Raise(st, made.moves, WillBeInCheck)
                 ELSE Commit(Figure__make_move(st, made.moves, self, cell))
         IN  Checked(Figure__make_move_on_copied(st, mv, self, cell))

\* a pawn move whose en passant capture leaves the taken pawn on the board
Pawn_make_move_leaving_taken(st, mv, self, cell) ==
    IF self.pos[1] = cell[1]
       /\ (self.pos[2] + self.color = cell[2]
           \/ (is_initial_position(self) /\ self.pos[2] + 2 * self.color = cell[2]))
    THEN IF get_by_cell(st, cell) # None
         THEN Raise(st, mv, "This field is already occupied.")
         ELSE PawnStep(st, mv, self, cell)
    ELSE IF abs(self.pos[1] - cell[1]) = 1 /\ self.pos[2] + self.color = cell[2]
    THEN IF get_by_cell(st, cell) # None
         THEN IF get_by_cell(st, cell).color = self.color
              THEN Raise(st, mv, "You cannot beat your own figures.")
              ELSE PawnStep(st, mv, self, cell)
         ELSE LET Kept(done, taken) ==
                      IF done.ok THEN [done EXCEPT !.st.board[taken.pos] = taken]
                      ELSE done
              IN  Kept(EnPassant(st, mv, self, cell,
                                 get_by_cell(st, <<cell[1], self.pos[2]>>)),
                       get_by_cell(st, <<cell[1], self.pos[2]>>))
    ELSE Raise(st, mv, "Pawns don't move like that.")

Pawn_make_move(st, mv, self, cell) ==
    IF self.pos[1] = cell[1]
       /\ (self.pos[2] + self.color = cell[2]
           \/ (is_initial_position(self) /\ self.pos[2] + 2 * self.color = cell[2]))
    THEN \* vertically one or two steps
         IF get_by_cell(st, cell) # None
         THEN Raise(st, mv, "This field is already occupied.")
         ELSE PawnStep(st, mv, self, cell)
    ELSE IF abs(self.pos[1] - cell[1]) = 1 /\ self.pos[2] + self.color = cell[2]
    THEN IF get_by_cell(st, cell) # None
         THEN IF get_by_cell(st, cell).color = self.color
              THEN Raise(st, mv, "You cannot beat your own figures.")
              ELSE PawnStep(st, mv, self, cell)
         ELSE EnPassant(st, mv, self, cell, get_by_cell(st, <<cell[1], self.pos[2]>>))
    ELSE Raise(st, mv, "Pawns don't move like that.")

Figure_make_move(st, mv, self, cell) ==
    CASE self.kind = "k" -> King_make_move(st, mv, self, cell)
      [] self.kind = "q" -> Queen_make_move(st, mv, self, cell)
      [] self.kind = "b" -> Bishop_make_move(st, mv, self, cell)
      [] self.kind = "h" -> Knight_make_move(st, mv, self, cell)
      [] self.kind = "r" -> Rook_make_move(st, mv, self, cell)
      [] self.kind = "p" -> Pawn_make_move(st, mv, self, cell)

-----------------------------------------------------------------------------
(* State.make_move, move enumeration and game-over detection *)

\* range(1, 9) for y, then range(1, 9) for x
ScanOrder ==
    [i \in 1..64 |-> <<((i - 1) % 8) + 1, ((i - 1) \div 8) + 1>>]

Knight_possible_unchecked(self) ==
    LET x == self.pos[1]
        y == self.pos[2]
    IN  << <<x - 1, y + 2>>, <<x - 1, y - 2>>, <<x + 1, y + 2>>, <<x + 1, y - 2>>,
           <<x + 2, y - 1>>, <<x - 2, y - 1>>, <<x + 2, y + 1>>, <<x - 2, y + 1>> >>

Pawn_possible_unchecked(self) ==
    LET x == self.pos[1]
        y == self.pos[2]
    IN  << <<x, y + self.color>>, <<x - 1, y + self.color>>, <<x + 1, y + self.color>> >>

RECURSIVE State_make_move(_, _, _)

\* the loop of every get_possible_moves over its candidates lo..hi, in order
\* (split in halves only to keep the evaluation shallow): each candidate is
\* tried with make_move on a fresh copy of the State; a candidate outside the
\* board raises in Cell() and is skipped like a rejection
RECURSIVE TryCandidates(_, _, _, _, _, _)
TryCandidates(st, mv, self, candidates, lo, hi) ==
    IF lo > hi THEN [result |-> <<>>, moves |-> mv]
    ELSE IF lo = hi
    THEN IF ~InBoard(candidates[lo][1], candidates[lo][2])
         THEN [result |-> <<>>, moves |-> mv]
         ELSE LET Tried(made) ==
                      [result |-> IF made.ok THEN <<candidates[lo]>> ELSE <<>>,
                       moves |-> made.moves]
              IN  Tried(State_make_move(get_copy(st), mv, <<self.pos, candidates[lo]>>))
    ELSE LET Both(first, rest) ==
                 [result |-> first.result \o rest.result, moves |-> rest.moves]
             Rest(first) ==
                 Both(first, TryCandidates(st, first.moves, self, candidates,
                                           ((lo + hi) \div 2) + 1, hi))
         IN  Rest(TryCandidates(st, mv, self, candidates, lo, (lo + hi) \div 2))

Figure_get_possible_moves(st, mv, self) ==
    CASE self.kind = "h" -> TryCandidates(st, mv, self, Knight_possible_unchecked(self), 1, 8)
      [] self.kind = "p" -> TryCandidates(st, mv, self, Pawn_possible_unchecked(self), 1, 3)
      [] OTHER -> TryCandidates(st, mv, self, ScanOrder, 1, 64)

State_get_possible_moves(st, mv, cell) ==
    IF st.is_game_over THEN [result |-> <<>>, moves |-> mv]
    ELSE IF get_by_cell(st, cell) # None
    THEN Figure_get_possible_moves(st, mv, get_by_cell(st, cell))
    ELSE [result |-> <<>>, moves |-> mv]

\* the scan of _is_there_possible_moves_by_color over the cells lo..hi of
\* ScanOrder, in order (split in halves only to keep the evaluation shallow);
\* it returns at the first figure of the color that has a possible move
RECURSIVE PossibleMovesScan(_, _, _, _, _)
PossibleMovesScan(st, mv, color, lo, hi) ==
    IF lo = hi
    THEN IF get_by_cell(st, ScanOrder[lo]) = None
            \/ get_by_cell(st, ScanOrder[lo]).color # color
         THEN [result |-> FALSE, moves |-> mv]
         ELSE LET Found(found) ==
                      [result |-> Len(found.result) # 0, moves |-> found.moves]
              IN  Found(Figure_get_possible_moves(st, mv, get_by_cell(st, ScanOrder[lo])))
    ELSE LET Rest(first) ==
                 IF first.result THEN first
                 ELSE PossibleMovesScan(st, first.moves, color, ((lo + hi) \div 2) + 1, hi)
         IN  Rest(PossibleMovesScan(st, mv, color, lo, (lo + hi) \div 2))

_is_there_possible_moves_by_color(st, mv, color) ==
    PossibleMovesScan(st, mv, color, 1, 64)

\* _check_on_game_over naming the side that has no move as the winner
_check_on_game_over_mated_wins(st, mv) ==
    LET Decide(possible_moves_presence, is_king_in_check) ==
            IF ~possible_moves_presence.result
            THEN Return([st EXCEPT !.is_game_over = TRUE,
                                   !.winning_side = IF is_king_in_check
                                                    THEN whose_move(st) ELSE 0],
                        possible_moves_presence.moves)
            ELSE Return(st, possible_moves_presence.moves)
    IN  Decide(_is_there_possible_moves_by_color(st, mv, whose_move(st)),
               _is_king_in_check(st, whose_move(st)))

_check_on_game_over(st, mv) ==
    LET Decide(possible_moves_presence, is_king_in_check) ==
            IF ~possible_moves_presence.result
            THEN Return([st EXCEPT !.is_game_over = TRUE,
                                   !.winning_side = IF is_king_in_check
                                                    THEN whose_move(st) * (-1) ELSE 0],
                        possible_moves_presence.moves)
            ELSE Return(st, possible_moves_presence.moves)
    IN  Decide(_is_there_possible_moves_by_color(st, mv, whose_move(st)),
               _is_king_in_check(st, whose_move(st)))

\* State.make_move without the comparison of the figure's color to whose_move
State_make_move_any_turn(st, mv, move) ==
    IF get_by_cell(st, move[1]) = None
    THEN Raise(st, mv, "From cell has no figure on it.")
    ELSE LET Made(made) ==
                 IF ~made.ok THEN made
                 ELSE IF made.st.is_original
                 THEN _check_on_game_over(made.st, made.moves)
                 ELSE made
         IN  Made(Figure_make_move(st, mv, get_by_cell(st, move[1]), move[2]))

State_make_move(st, mv, move) ==
    IF get_by_cell(st, move[1]) = None
    THEN Raise(st, mv, "From cell has no figure on it.")
    ELSE IF get_by_cell(st, move[1]).color # whose_move(st)
    THEN Raise(st, mv, ItsNotTurn(get_by_cell(st, move[1]).color))
    ELSE LET Made(made) ==
                 IF ~made.ok THEN made
                 ELSE IF made.st.is_original
                 THEN _check_on_game_over(made.st, made.moves)
                 ELSE made
         IN  Made(Figure_make_move(st, mv, get_by_cell(st, move[1]), move[2]))

\* State.last_move; <<>> stands for None
last_move(st, mv) ==
    IF st.number_of_moves > 0 THEN mv[st.number_of_moves] ELSE <<>>

-----------------------------------------------------------------------------
(* The authoritative State and the calls made on it *)

\* the longest game played, in plies
MaxPly ==
    12

\* the most calls of one behaviour that commit no move (rejected moves, queries)
MaxOtherCalls ==
    1

\* A game played move by move: Qd1xc2 Bc8xd7 Qc2xd2 Bd7a4 Qd2xc1 Qd8d5 Qc1xb1
\* Qd5a5+ (the white queen and the black bishop capturing pieces of their own
\* color), then b2b4
FalseMateGame ==
    << <<<<4, 1>>, <<3, 2>>>>, <<<<3, 8>>, <<4, 7>>>>, <<<<3, 2>>, <<4, 2>>>>,
       <<<<4, 7>>, <<1, 4>>>>, <<<<4, 2>>, <<3, 1>>>>, <<<<4, 8>>, <<4, 5>>>>,
       <<<<3, 1>>, <<2, 1>>>>, <<<<4, 5>>, <<1, 5>>>>, <<<<2, 2>>, <<2, 4>>>> >>

\* A game played move by move: Hg1xe2 Hg8f6 Bf1xg2 Hf6g4 Ke1 onto Rh1 (castling)
\* Hg4xf2 He2xg1 Hf2xd1 h2h3 Hd1xb2 Bg2e4, then Ke8 onto the white Rook of f1
EnemyRookGame ==
    << <<<<7, 1>>, <<5, 2>>>>, <<<<7, 8>>, <<6, 6>>>>, <<<<6, 1>>, <<7, 2>>>>,
       <<<<6, 6>>, <<7, 4>>>>, <<<<5, 1>>, <<8, 1>>>>, <<<<7, 4>>, <<6, 2>>>>,
       <<<<5, 2>>, <<7, 1>>>>, <<<<6, 2>>, <<4, 1>>>>, <<<<8, 2>>, <<8, 3>>>>,
       <<<<4, 1>>, <<2, 2>>>>, <<<<7, 2>>, <<5, 4>>>>, <<<<5, 8>>, <<6, 1>>>> >>

\* The caller's inputs.  Each opening is a set of Moves; every call of a
\* behaviour draws its Move (or the Cell it queries) from the behaviour's opening
\* (see InputMoves for the openings that are games).
Openings ==
    << \* 1: e2e4 f7f5 Ke1e2 f5f4 Ke2e3 f4xe3 (a king next to a pawn)
       { <<<<5, 2>>, <<5, 4>>>>, <<<<6, 7>>, <<6, 5>>>>, <<<<5, 1>>, <<5, 2>>>>,
         <<<<6, 5>>, <<6, 4>>>>, <<<<5, 2>>, <<5, 3>>>>, <<<<6, 4>>, <<5, 3>>>> },
       \* 2: e2e4 f7f5 Qd1h5+ and the answers f5f4, Ke8f7, g7g6, then Qh5xg6 h7xg6
       { <<<<5, 2>>, <<5, 4>>>>, <<<<6, 7>>, <<6, 5>>>>, <<<<4, 1>>, <<8, 5>>>>,
         <<<<6, 5>>, <<6, 4>>>>, <<<<5, 8>>, <<6, 7>>>>, <<<<7, 7>>, <<7, 6>>>>,
         <<<<8, 5>>, <<7, 6>>>>, <<<<8, 7>>, <<7, 6>>>> },
       \* 3: f2f3 e7e5 g2g4 Qd8h4 (fool's mate), and a2a3
       { <<<<6, 2>>, <<6, 3>>>>, <<<<5, 7>>, <<5, 5>>>>, <<<<7, 2>>, <<7, 4>>>>,
         <<<<4, 8>>, <<8, 4>>>>, <<<<1, 2>>, <<1, 3>>>> },
       \* 4: moves onto the mover's own pieces: Hb1d2, Qd1e1, Ra1b1, Hg8e7, and a7a6
       { <<<<2, 1>>, <<4, 2>>>>, <<<<4, 1>>, <<5, 1>>>>, <<<<1, 1>>, <<2, 1>>>>,
         <<<<7, 8>>, <<5, 7>>>>, <<<<1, 7>>, <<1, 6>>>> },
       \* 5: e2e4 e4e5 against d7d5, f7f5, a7a6, then e5xd6 or e5xf6 (en passant)
       { <<<<5, 2>>, <<5, 4>>>>, <<<<5, 4>>, <<5, 5>>>>, <<<<4, 7>>, <<4, 5>>>>,
         <<<<6, 7>>, <<6, 5>>>>, <<<<1, 7>>, <<1, 6>>>>, <<<<5, 5>>, <<4, 6>>>>,
         <<<<5, 5>>, <<6, 6>>>> },
       \* 6: Hg1f3 e2e3 Bf1e2 Be2d3 and Ke1 onto Rh1 (castling) against g7g5 g5g4
       \* g4g3 g3xf2 (a pawn next to the king and to the squares it castles over)
       { <<<<7, 1>>, <<6, 3>>>>, <<<<5, 2>>, <<5, 3>>>>, <<<<6, 1>>, <<5, 2>>>>,
         <<<<5, 2>>, <<4, 3>>>>, <<<<5, 1>>, <<8, 1>>>>, <<<<7, 7>>, <<7, 5>>>>,
         <<<<7, 5>>, <<7, 4>>>>, <<<<7, 4>>, <<7, 3>>>>, <<<<7, 3>>, <<6, 2>>>> },
       \* 7: a2a4 a4a5 a5a6 a6xb7 and b7xa8 or b7b8 (promotion) against Hb8c6 Hc6e5
       \* He5g4 Hg4h6
       { <<<<1, 2>>, <<1, 4>>>>, <<<<1, 4>>, <<1, 5>>>>, <<<<1, 5>>, <<1, 6>>>>,
         <<<<1, 6>>, <<2, 7>>>>, <<<<2, 7>>, <<1, 8>>>>, <<<<2, 7>>, <<2, 8>>>>,
         <<<<2, 8>>, <<3, 6>>>>, <<<<3, 6>>, <<5, 5>>>>, <<<<5, 5>>, <<7, 4>>>>,
         <<<<7, 4>>, <<8, 6>>>> },
       \* 8: the moves of FalseMateGame
       { FalseMateGame[i] : i \in 1..Len(FalseMateGame) },
       \* 9: e2e4 e4e5 e5e6 against a7a6 a6a5 d7d6, then e6xd7 (a pawn taking, as
       \* if en passant, a pawn that advanced one square)
       { <<<<5, 2>>, <<5, 4>>>>, <<<<5, 4>>, <<5, 5>>>>, <<<<5, 5>>, <<5, 6>>>>,
         <<<<5, 6>>, <<4, 7>>>>, <<<<1, 7>>, <<1, 6>>>>, <<<<1, 6>>, <<1, 5>>>>,
         <<<<4, 7>>, <<4, 6>>>> },
       \* 10: Hg1f3 and f2f4 against a7a6 (a pawn advancing two squares past the
       \* knight in front of it)
       { <<<<7, 1>>, <<6, 3>>>>, <<<<6, 2>>, <<6, 4>>>>, <<<<1, 7>>, <<1, 6>>>> },
       \* 11: the moves of EnemyRookGame
       { EnemyRookGame[i] : i \in 1..Len(EnemyRookGame) } >>

\* the openings whose moves are called in the order of a game
Games ==
    [l \in {8, 11} |-> IF l = 8 THEN FalseMateGame ELSE EnemyRookGame]

\* In an opening that is a game, a call names the next move of the game or the
\* game's last move, which is so tried in every position of the game.
InputMoves ==
    IF line \in DOMAIN Games
    THEN { Games[line][min(number_of_moves + 1, Len(Games[line]))],
           Games[line][Len(Games[line])] }
    ELSE Openings[line]

InputCells ==
    {move[1] : move \in InputMoves}

Self ==
    [board |-> board, number_of_moves |-> number_of_moves,
     white_king_position |-> white_king_position,
     black_king_position |-> black_king_position,
     is_game_over |-> is_game_over, winning_side |-> winning_side,
     is_original |-> TRUE]

\* State.__init__
Init ==
    /\ board = board_from_text(initial_position)
    /\ moves = <<>>
    /\ number_of_moves = 0
    /\ white_king_position = <<5, 1>>
    /\ black_king_position = <<5, 8>>
    /\ is_game_over = FALSE
    /\ winning_side = 0
    /\ lastCall = [op |-> "init", from |-> <<0, 0>>, to |-> <<0, 0>>, ok |-> TRUE,
                   error |-> "", result |-> <<>>]
    /\ accepted = <<>>
    /\ otherCalls = 0
    /\ line \in 1..Len(Openings)

Store(st) ==
    /\ board' = st.board
    /\ number_of_moves' = st.number_of_moves
    /\ white_king_position' = st.white_king_position
    /\ black_king_position' = st.black_king_position
    /\ is_game_over' = st.is_game_over
    /\ winning_side' = st.winning_side

\* applyMove(Move): State.make_move on the authoritative State
ApplyMove ==
    /\ number_of_moves < MaxPly
    /\ \E move \in InputMoves :
          LET Call(made) ==
                  /\ made.ok \/ otherCalls < MaxOtherCalls
                  /\ Store(made.st)
                  /\ moves' = made.moves
                  /\ lastCall' = [op |-> "applyMove", from |-> move[1], to |-> move[2],
                                  ok |-> made.ok, error |-> made.error, result |-> <<>>]
                  /\ accepted' = IF made.ok THEN Append(accepted, move) ELSE accepted
                  /\ otherCalls' = IF made.ok THEN otherCalls ELSE otherCalls + 1
                  /\ UNCHANGED line
          IN  Call(State_make_move(Self, moves, move))

\* possibleMoves(Cell): State.get_possible_moves on the authoritative State
PossibleMoves ==
    /\ otherCalls < MaxOtherCalls
    /\ \E cell \in InputCells :
          LET Call(found) ==
                  /\ moves' = found.moves
                  /\ lastCall' = [op |-> "possibleMoves", from |-> cell, to |-> <<0, 0>>,
                                  ok |-> TRUE, error |-> "", result |-> found.result]
                  /\ otherCalls' = otherCalls + 1
                  /\ UNCHANGED <<board, number_of_moves, white_king_position,
                                 black_king_position, is_game_over, winning_side,
                                 accepted, line>>
          IN  Call(State_get_possible_moves(Self, moves, cell))

Next ==
    \/ ApplyMove
    \/ PossibleMoves

Spec ==
    Init /\ [][Next]_vars

-----------------------------------------------------------------------------
(* Properties *)

\* the step just taken was a call of applyMove that was accepted / rejected
Accepted(call) ==
    call.op = "applyMove" /\ call.ok

Rejected(call) ==
    call.op = "applyMove" /\ ~call.ok

\* the color to move at ply counter n: white when n is even
ColorToMove(n) ==
    IF n % 2 = 0 THEN 1 ELSE -1

KingCells(b, color) ==
    {c \in Cells : b[c].kind = "k" /\ b[c].color = color}

PieceCount(b, color) ==
    Cardinality({c \in Cells : b[c] # None /\ b[c].color = color})

MoveCounts(b) ==
    [c \in Cells |-> b[c].number_of_moves]

BoardText(b) ==
    board_to_str([board |-> b])

\* a pawn attacks the two squares diagonally ahead of it, where it captures
PawnAttacksAhead(figure, cell) ==
    abs(figure.pos[1] - cell[1]) = 1 /\ cell[2] = figure.pos[2] + figure.color

\* `cell` is attacked by a piece of `color`: pawns diagonally ahead, kings and
\* knights by pattern, queens, rooks and bishops along unobstructed rays
AttackedBy(st, cell, color) ==
    \E c \in Cells :
        /\ st.board[c] # None
        /\ st.board[c].color = color
        /\ IF st.board[c].kind = "p" THEN PawnAttacksAhead(st.board[c], cell)
           ELSE Figure_is_cell_under_attack(st, st.board[c], cell)

\* C1: right after an accepted move, the mover's king is not on a square that an
\* opposing piece attacks (a pawn attacking the two squares diagonally ahead).
C1_SelfCheckSafety ==
    Accepted(lastCall) =>
        \A c \in KingCells(board, ColorToMove(number_of_moves) * (-1)) :
            ~AttackedBy(Self, c, ColorToMove(number_of_moves))

\* C2: in every reachable state the board holds exactly one white King and
\* exactly one black King.
C2_OneKingEach ==
    /\ Cardinality(KingCells(board, 1)) = 1
    /\ Cardinality(KingCells(board, -1)) = 1

\* C3: an accepted move never decreases the number of the mover's own pieces on
\* the board (a move onto an own piece is rejected, or is castling).
C3_OwnPiecesKept ==
    [][Accepted(lastCall') =>
          PieceCount(board', ColorToMove(number_of_moves))
              >= PieceCount(board, ColorToMove(number_of_moves))]_vars

\* C4: a rejected applyMove leaves serializeBoard(), whoseMove, the ply counter
\* and every Figure's move count as they were.
C4_RejectedKeepsBoard ==
    [][Rejected(lastCall') =>
          /\ BoardText(board') = BoardText(board)
          /\ ColorToMove(number_of_moves') = ColorToMove(number_of_moves)
          /\ number_of_moves' = number_of_moves
          /\ MoveCounts(board') = MoveCounts(board)]_vars

\* a move was rejected because it would leave the mover's king in check, that
\* is after the copy of the State had been made and changed
C4_Witness ==
    Rejected(lastCall) /\ lastCall.error = WillBeInCheck /\ number_of_moves >= 3

\* C5: every accepted applyMove increments the ply counter by exactly one and
\* flips whoseMove, and the accepted moves are made by white, black, white, ...
C5_PlyAdvances ==
    [][Accepted(lastCall') =>
          /\ number_of_moves' = number_of_moves + 1
          /\ ColorToMove(number_of_moves') = ColorToMove(number_of_moves) * (-1)
          /\ board[lastCall'.from].color = ColorToMove(Len(accepted))
          /\ Len(accepted') = Len(accepted) + 1]_vars

\* castling (the king and the rook both relocated) has been accepted as one ply
C5_Witness ==
    /\ Accepted(lastCall)
    /\ lastCall.from = <<5, 1>> /\ lastCall.to = <<8, 1>>
    /\ board[<<7, 1>>].kind = "k" /\ board[<<6, 1>>].kind = "r"
    /\ number_of_moves = Len(accepted)

\* C6: applyMove from a cell holding a piece of the color that is not to move,
\* or from an empty cell, is rejected.
C6_TurnEnforced ==
    [][(/\ lastCall'.op = "applyMove"
        /\ \/ board[lastCall'.from] = None
           \/ board[lastCall'.from].color # ColorToMove(number_of_moves))
       => ~lastCall'.ok]_vars

\* white tried to move a white piece when it was black's turn, and was refused
C6_Witness ==
    /\ Rejected(lastCall)
    /\ board[lastCall.from] # None /\ board[lastCall.from].color = 1
    /\ ColorToMove(number_of_moves) = -1
    /\ lastCall.error = ItsNotTurn(1)

\* C7: a rejected applyMove leaves every component of the State as it was:
\* board, global move list, ply counter, king positions, game-over flag, winner.
C7_RejectedKeepsState ==
    [][Rejected(lastCall') =>
          UNCHANGED <<board, moves, number_of_moves, white_king_position,
                      black_king_position, is_game_over, winning_side>>]_vars

\* the entry records the accepted Move: same source, and the Move's destination
\* (for a King's move onto its Rook's cell, the cell two files towards the Rook)
Records(entry, move) ==
    /\ entry.cell_from = move[1]
    /\ \/ entry.cell_to = move[2]
       \/ entry.cell_to = <<move[1][1] + 2 * sign(move[2][1] - move[1][1]), move[2][2]>>

\* C8: the global move list holds exactly one entry per accepted move, in the
\* order of acceptance; its length equals the ply counter.
C8_MoveListIsAccepted ==
    /\ Len(moves) = number_of_moves
    /\ Len(moves) = Len(accepted)
    /\ \A i \in 1..Len(moves) :
          i <= Len(accepted) => Records(moves[i], accepted[i]) /\ moves[i].move_number = i

\* C9: lastMove is None before any accepted move, and after k >= 1 accepted
\* moves it is the k-th accepted move, numbered with the current ply counter.
C9_LastMove ==
    IF Len(accepted) = 0 THEN last_move(Self, moves) = <<>>
    ELSE /\ last_move(Self, moves) # <<>>
         /\ Records(last_move(Self, moves), accepted[Len(accepted)])
         /\ last_move(Self, moves).move_number = number_of_moves

\* C10: while the game is not over, possibleMoves(C) lists exactly the
\* destinations D for which applyMove(Move(C, D)) would be accepted; it is empty
\* when C is empty or the game is over.
C10_PossibleMovesExact ==
    \A c \in Cells :
        IF is_game_over \/ board[c] = None
        THEN State_get_possible_moves(Self, moves, c).result = <<>>
        ELSE {State_get_possible_moves(Self, moves, c).result[i] :
                 i \in 1..Len(State_get_possible_moves(Self, moves, c).result)}
             = {d \in Cells : State_make_move(Self, moves, <<c, d>>).ok}

\* applyMove(move) would be accepted in the current position: the figure's
\* make_move succeeds (the game-over scan that follows it never raises)
WouldAccept(move) ==
    State_make_move(get_copy(Self), moves, move).ok

\* the side to move has a Move of one of its pieces that applyMove would accept
HasLegalMove ==
    \E c \in Cells :
        /\ board[c] # None
        /\ board[c].color = ColorToMove(number_of_moves)
        /\ \E d \in Cells : WouldAccept(<<c, d>>)

\* the king of the side to move stands on a square an opposing piece attacks
KingAttacked ==
    \E c \in KingCells(board, ColorToMove(number_of_moves)) :
        AttackedBy(Self, c, ColorToMove(number_of_moves) * (-1))

\* C11: after an accepted move isGameOver is true only if the side now to move
\* has no Move of any of its pieces that applyMove would accept; if such a move
\* exists the game stays in progress.
C11_GameOverSound ==
    (Accepted(lastCall) /\ is_game_over) => ~HasLegalMove

C13_GameOverTerminal ==
    [][is_game_over =>
          /\ is_game_over'
          /\ lastCall'.op = "applyMove" => ~lastCall'.ok
          /\ UNCHANGED <<board, number_of_moves, winning_side>>]_vars

\* the Move takes a King onto the cell of a Rook of its own color
IsCastling(b, from, to) ==
    b[from].kind = "k" /\ b[to].kind = "r" /\ b[to].color = b[from].color

\* the cell the King crosses and the cell it lands on when it castles
CrossedCell(from, to) ==
    <<from[1] + sign(to[1] - from[1]), from[2]>>

LandingCell(from, to) ==
    <<from[1] + 2 * sign(to[1] - from[1]), from[2]>>

\* the position castling would produce: the King on its landing cell, the Rook
\* on the crossed cell, their original cells empty
Castled(b, from, to) ==
    [c \in Cells |->
        IF c = LandingCell(from, to) THEN [b[from] EXCEPT !.pos = c]
        ELSE IF c = CrossedCell(from, to) THEN [b[to] EXCEPT !.pos = c]
        ELSE IF c = from \/ c = to THEN None
        ELSE b[c]]

\* one of the conditions that forbid castling holds for the King on `from` and
\* its Rook on `to`
CastlingForbidden(b, from, to) ==
    \/ b[from].number_of_moves > 0
    \/ b[to].number_of_moves > 0
    \/ \E x \in (min(from[1], to[1]) + 1)..(max(from[1], to[1]) - 1) :
           b[<<x, to[2]>>] # None
    \/ AttackedBy([board |-> b], from, b[from].color * (-1))
    \/ /\ CrossedCell(from, to) \in Cells
       /\ AttackedBy([board |-> b], CrossedCell(from, to), b[from].color * (-1))
    \/ /\ LandingCell(from, to) \in Cells
       /\ AttackedBy([board |-> Castled(b, from, to)], LandingCell(from, to),
                     b[from].color * (-1))

\* C14: a King move onto its own Rook's cell is rejected, with no square, no
\* king cache and no move count changed, whenever the King or the Rook has
\* moved before, a square between them is occupied, the King is attacked, the
\* square the King crosses is attacked, or the King would be attacked afterwards.
C14_CastlingAllOrNothing ==
    [][(/\ lastCall'.op = "applyMove"
        /\ IsCastling(board, lastCall'.from, lastCall'.to)
        /\ CastlingForbidden(board, lastCall'.from, lastCall'.to))
       => /\ ~lastCall'.ok
          /\ UNCHANGED <<board, white_king_position, black_king_position,
                         number_of_moves>>]_vars

\* C15: an accepted castling leaves, in one step, the King two files from its
\* start towards the Rook, the Rook on the square the King crossed, their
\* original squares empty, every other square unchanged, the cached king
\* position on the King's new square and the ply counter increased by one.
C15_CastlingResult ==
    [][(Accepted(lastCall') /\ IsCastling(board, lastCall'.from, lastCall'.to))
       => /\ board'[LandingCell(lastCall'.from, lastCall'.to)].kind = "k"
          /\ board'[LandingCell(lastCall'.from, lastCall'.to)].color
                 = board[lastCall'.from].color
          /\ board'[LandingCell(lastCall'.from, lastCall'.to)].pos
                 = LandingCell(lastCall'.from, lastCall'.to)
          /\ board'[CrossedCell(lastCall'.from, lastCall'.to)].kind = "r"
          /\ board'[CrossedCell(lastCall'.from, lastCall'.to)].color
                 = board[lastCall'.from].color
          /\ board'[CrossedCell(lastCall'.from, lastCall'.to)].pos
                 = CrossedCell(lastCall'.from, lastCall'.to)
          /\ board'[lastCall'.from] = None
          /\ board'[lastCall'.to] = None
          /\ \A c \in Cells \ {lastCall'.from, lastCall'.to,
                               LandingCell(lastCall'.from, lastCall'.to),
                               CrossedCell(lastCall'.from, lastCall'.to)} :
                 board'[c] = board[c]
          /\ get_king_position_by_color(
                 [white_king_position |-> white_king_position',
                  black_king_position |-> black_king_position'],
                 board[lastCall'.from].color)
                 = LandingCell(lastCall'.from, lastCall'.to)
          /\ get_king_position_by_color(
                 [white_king_position |-> white_king_position',
                  black_king_position |-> black_king_position'],
                 board[lastCall'.from].color * (-1))
                 = get_king_position_by_color(Self, board[lastCall'.from].color * (-1))
          /\ number_of_moves' = number_of_moves + 1]_vars

\* white has castled with the rook of h1: king on g1, rook on f1, e1 and h1 empty
C15_Witness ==
    /\ Accepted(lastCall)
    /\ lastCall.from = <<5, 1>> /\ lastCall.to = <<8, 1>>
    /\ board[<<7, 1>>].kind = "k" /\ board[<<7, 1>>].number_of_moves = 1
    /\ board[<<6, 1>>].kind = "r" /\ board[<<6, 1>>].pos = <<6, 1>>
    /\ board[<<5, 1>>] = None /\ board[<<8, 1>>] = None
    /\ white_king_position = <<7, 1>>

\* the Move takes a pawn of the side to move diagonally forward onto an empty
\* square, next to an enemy pawn standing on the file of the target
IsEnPassantAttempt(b, n, from, to) ==
    /\ b[from].kind = "p" /\ b[from].color = ColorToMove(n)
    /\ abs(from[1] - to[1]) = 1 /\ to[2] = from[2] + b[from].color
    /\ b[to] = None
    /\ b[<<to[1], from[2]>>].kind = "p"
    /\ b[<<to[1], from[2]>>].color = b[from].color * (-1)

\* the ply at which the last accepted move onto `cell` was made (0 if none)
LastArrival(cell) ==
    IF \E i \in 1..Len(accepted) : accepted[i][2] = cell
    THEN CHOOSE i \in 1..Len(accepted) :
             /\ accepted[i][2] = cell
             /\ \A j \in (i + 1)..Len(accepted) : accepted[j][2] # cell
    ELSE 0

\* the pawn of color `color` on `cell` came there by its two-square advance
TwoSquareAdvance(cell, color) ==
    /\ LastArrival(cell) > 0
    /\ accepted[LastArrival(cell)][1] = <<cell[1], cell[2] - 2 * color>>

\* C16: a pawn that made its two-square advance as ply N can be captured en
\* passant by the enemy pawn beside it only as ply N+1; the same capture tried
\* at ply N+2 or later is rejected.
C16_EnPassantTiming ==
    [][(/\ lastCall'.op = "applyMove"
        /\ IsEnPassantAttempt(board, number_of_moves, lastCall'.from, lastCall'.to)
        /\ TwoSquareAdvance(<<lastCall'.to[1], lastCall'.from[2]>>,
                            board[lastCall'.from].color * (-1))
        /\ lastCall'.ok)
       => number_of_moves = LastArrival(<<lastCall'.to[1], lastCall'.from[2]>>)]_vars

\* an en passant capture of a pawn that had made its two-square advance was
\* tried two or more plies after the advance, and refused
C16_Witness ==
    /\ Rejected(lastCall) /\ lastCall.error = NotEnPassant
    /\ IsEnPassantAttempt(board, number_of_moves, lastCall.from, lastCall.to)
    /\ TwoSquareAdvance(<<lastCall.to[1], lastCall.from[2]>>,
                        board[lastCall.from].color * (-1))
    /\ number_of_moves > LastArrival(<<lastCall.to[1], lastCall.from[2]>>)

\* C17: a pawn's diagonal move onto an empty square is accepted only if the
\* enemy pawn beside it advanced two squares on the immediately preceding ply;
\* after a one-square advance of that pawn the capture is rejected.
C17_EnPassantNeedsTwoSquares ==
    [][(/\ Accepted(lastCall')
        /\ board[lastCall'.from].kind = "p"
        /\ abs(lastCall'.from[1] - lastCall'.to[1]) = 1
        /\ board[lastCall'.to] = None)
       => /\ IsEnPassantAttempt(board, number_of_moves, lastCall'.from, lastCall'.to)
          /\ Len(accepted) > 0
          /\ accepted[Len(accepted)]
                 = << <<lastCall'.to[1],
                        lastCall'.from[2] + 2 * board[lastCall'.from].color>>,
                      <<lastCall'.to[1], lastCall'.from[2]>> >>]_vars

\* the farthest rank for a pawn of the color
FarthestRank(color) ==
    IF color = 1 THEN 8 ELSE 1

\* C18: whenever a Pawn move onto the farthest rank for its color is accepted,
\* by advance or by capture, the destination then holds a Queen of the same
\* color whose move history and move count are the pawn's, the promoting move
\* included; no reachable state has a Pawn on rank 1 or rank 8.
C18_Promotion ==
    [][/\ (/\ Accepted(lastCall')
           /\ board[lastCall'.from].kind = "p"
           /\ lastCall'.to[2] = FarthestRank(board[lastCall'.from].color))
          => board'[lastCall'.to]
                 = [kind |-> "q",
                    color |-> board[lastCall'.from].color,
                    pos |-> lastCall'.to,
                    moves |-> Append(board[lastCall'.from].moves,
                                     EnumeratedMove(lastCall'.from, lastCall'.to,
                                                    number_of_moves + 1)),
                    number_of_moves |-> board[lastCall'.from].number_of_moves + 1]
       /\ \A c \in Cells : board'[c].kind = "p" => c[2] \notin {1, 8}]_vars

\* the white a-pawn has taken the rook on a8 and stands there as a Queen with
\* the pawn's five moves
C18_Witness ==
    /\ Accepted(lastCall)
    /\ lastCall.from = <<2, 7>> /\ lastCall.to = <<1, 8>>
    /\ board[<<1, 8>>].kind = "q" /\ board[<<1, 8>>].color = 1
    /\ board[<<1, 8>>].number_of_moves = 5
    /\ Figure_last_move(board[<<1, 8>>]).cell_from = <<2, 7>>
    /\ board[<<2, 7>>] = None

\* C19: in every reachable state, for each color, the cached king position
\* names a cell whose occupant is the King of that color.
C19_KingCacheExact ==
    /\ board[white_king_position].kind = "k"
    /\ board[white_king_position].color = 1
    /\ board[black_king_position].kind = "k"
    /\ board[black_king_position].color = -1

\* the rows serializeBoard() gives after "e2 e4" from the initial position
AfterE2E4 ==
    [[initial_position EXCEPT ![7][5] = "."] EXCEPT ![5][5] = "P"]

\* C20: an accepted move that is neither castling nor en passant changes exactly
\* two squares: the source becomes empty, the destination holds the moved piece
\* (or the promoted Queen), every other square is unchanged; after "e2 e4" the
\* serialization differs from the initial layout only at e2 and e4.
C20_TwoSquaresChange ==
    [][(/\ Accepted(lastCall')
        /\ ~IsCastling(board, lastCall'.from, lastCall'.to)
        /\ ~(/\ board[lastCall'.from].kind = "p"
             /\ lastCall'.from[1] # lastCall'.to[1]
             /\ board[lastCall'.to] = None))
       => /\ board'[lastCall'.from] = None
          /\ board'[lastCall'.to].pos = lastCall'.to
          /\ board'[lastCall'.to].color = board[lastCall'.from].color
          /\ \/ board'[lastCall'.to].kind = board[lastCall'.from].kind
             \/ /\ board[lastCall'.from].kind = "p"
                /\ lastCall'.to[2] = FarthestRank(board[lastCall'.from].color)
                /\ board'[lastCall'.to].kind = "q"
          /\ \A c \in Cells \ {lastCall'.from, lastCall'.to} : board'[c] = board[c]
          /\ (/\ number_of_moves = 0
              /\ lastCall'.from = <<5, 2>> /\ lastCall'.to = <<5, 4>>)
             => BoardText(board') = AfterE2E4]_vars

\* "e2 e4" has been applied to the initial position
C20_Witness ==
    /\ Accepted(lastCall)
    /\ lastCall.from = <<5, 2>> /\ lastCall.to = <<5, 4>>
    /\ number_of_moves = 1
    /\ board[<<5, 4>>].kind = "p" /\ board[<<5, 2>>] = None
    /\ BoardText(board) = AfterE2E4

\* every Figure on the board has as many recorded moves as its move count
HistoryMatchesCount(b) ==
    \A c \in Cells : b[c] # None => Len(b[c].moves) = b[c].number_of_moves

\* the cell on which the piece moved by an accepted Move stands afterwards: the
\* Move's target, or, for a King that has never moved going onto a Rook that
\* has never moved, the cell two files from its start on the Rook's rank
ArrivalCell(b, from, to) ==
    IF /\ b[from].kind = "k" /\ b[from].number_of_moves = 0
       /\ b[to].kind = "r" /\ b[to].number_of_moves = 0
    THEN <<from[1] + 2 * sign(to[1] - from[1]), to[2]>>
    ELSE to

\* the piece of the position `b` that the Figure found on `c` after the Move
\* stands for: the castled Rook came from the Move's target, every other
\* Figure stood on `c` already
Predecessor(b, from, to, c) ==
    IF IsCastling(b, from, to) /\ c = CrossedCell(from, to) THEN b[to] ELSE b[c]

\* C21: every Figure on the board has a recorded history as long as its move
\* count; the Figure an accepted move puts on the board (the promoted Queen
\* included) carries the moved piece's history plus the new move and a count
\* one higher, and no other piece's move count ever decreases.
C21_HistoryGrows ==
    [][/\ HistoryMatchesCount(board)
       /\ HistoryMatchesCount(board')
       /\ Accepted(lastCall') =>
              LET arrival == ArrivalCell(board, lastCall'.from, lastCall'.to)
              IN  /\ board'[arrival].moves
                         = Append(board[lastCall'.from].moves,
                                  EnumeratedMove(lastCall'.from, arrival,
                                                 number_of_moves + 1))
                  /\ board'[arrival].number_of_moves
                         = board[lastCall'.from].number_of_moves + 1
                  /\ \A c \in Cells \ {arrival} :
                         board'[c] # None =>
                             board'[c].number_of_moves
                                 >= Predecessor(board, lastCall'.from, lastCall'.to,
                                                c).number_of_moves
       /\ ~Accepted(lastCall') =>
              \A c \in Cells :
                  board'[c] # None =>
                      board'[c].number_of_moves >= board[c].number_of_moves]_vars

\* the black bishop of c8 has moved twice (to d7, then to a4) and records both moves
C21_Witness ==
    /\ Accepted(lastCall)
    /\ lastCall.from = <<4, 7>> /\ lastCall.to = <<1, 4>>
    /\ board[<<1, 4>>].kind = "b" /\ board[<<1, 4>>].number_of_moves = 2
    /\ Len(board[<<1, 4>>].moves) = 2
    /\ board[<<1, 4>>].moves[1].cell_from = <<3, 8>>
    /\ board[<<1, 4>>].moves[2].cell_to = <<1, 4>>

\* the Move takes a pawn diagonally onto an empty square
IsEnPassantCapture(b, from, to) ==
    b[from].kind = "p" /\ from[1] # to[1] /\ b[to] = None

\* C22: when an en passant capture is accepted, the captured pawn's square
\* (the target's file, the mover's starting rank) becomes empty, the destination
\* holds the capturing pawn, the source becomes empty and no other square changes.
C22_EnPassantEffect ==
    [][(/\ Accepted(lastCall')
        /\ IsEnPassantCapture(board, lastCall'.from, lastCall'.to))
       => /\ board[<<lastCall'.to[1], lastCall'.from[2]>>].kind = "p"
          /\ board[<<lastCall'.to[1], lastCall'.from[2]>>].color
                 = board[lastCall'.from].color * (-1)
          /\ board'[<<lastCall'.to[1], lastCall'.from[2]>>] = None
          /\ board'[lastCall'.to].kind = "p"
          /\ board'[lastCall'.to].color = board[lastCall'.from].color
          /\ board'[lastCall'.to].pos = lastCall'.to
          /\ board'[lastCall'.from] = None
          /\ \A c \in Cells \ {lastCall'.from, lastCall'.to,
                               <<lastCall'.to[1], lastCall'.from[2]>>} :
                 board'[c] = board[c]]_vars

\* after e2e4, e4e5 and d7d5 the white pawn has taken on d6 en passant: d5 and
\* e5 are empty, the white pawn stands on d6
C22_Witness ==
    /\ Accepted(lastCall)
    /\ lastCall.from = <<5, 5>> /\ lastCall.to = <<4, 6>>
    /\ board[<<4, 6>>].kind = "p" /\ board[<<4, 6>>].color = 1
    /\ board[<<4, 5>>] = None /\ board[<<5, 5>>] = None
    /\ board[<<4, 7>>] = None
    /\ PieceCount(board, -1) = 15

Sliders ==
    {"q", "r", "b"}

\* the displacement from `from` to `to` is one a piece of the kind slides along:
\* straight for a Queen or Rook, diagonal for a Queen or Bishop
SlideShape(kind, from, to) ==
    /\ from # to
    /\ \/ kind \in {"q", "r"} /\ (from[1] = to[1] \/ from[2] = to[2])
       \/ kind \in {"q", "b"} /\ abs(from[1] - to[1]) = abs(from[2] - to[2])

\* the squares strictly between `from` and `to` on a straight or diagonal line
Between(from, to) ==
    {<<from[1] + k * sign(to[1] - from[1]), from[2] + k * sign(to[2] - from[2])>> :
        k \in 1..(max(abs(to[1] - from[1]), abs(to[2] - from[2])) - 1)}

\* the slider of the kind on `from` reaches `to`: the shape is right and no
\* square in between is occupied
SlideReaches(b, kind, from, to) ==
    /\ SlideShape(kind, from, to)
    /\ \A c \in Between(from, to) : c \in Cells /\ b[c] = None

\* on the position `b` the attack test of the slider on `c` agrees with
\* SlideReaches for the target `t`, and the diagonal scan towards a diagonal
\* target does not leave the board
AttacksByRay(b, c, t) ==
    /\ Figure_is_cell_under_attack([board |-> b], b[c], t)
           <=> SlideReaches(b, b[c].kind, c, t)
    /\ (/\ b[c].kind \in {"q", "b"}
        /\ t # c
        /\ abs(c[1] - t[1]) = abs(c[2] - t[2]))
       => DiagonalScan([board |-> b], c[1], c[2],
                       sign(t[1] - c[1]), sign(t[2] - c[2]), t) # "raise"

\* C23: a Queen, Rook or Bishop move is accepted only if the displacement is
\* straight (Queen, Rook) or diagonal (Queen, Bishop) and every square strictly
\* between source and destination is empty; the same rule decides, for every
\* square of the board, whether the Queen, Rook or Bishop a call names attacks
\* it, and the diagonal scan stays on the board.
C23_SlidersNeverJump ==
    [][/\ (Accepted(lastCall') /\ board[lastCall'.from].kind \in Sliders)
          => SlideReaches(board, board[lastCall'.from].kind,
                          lastCall'.from, lastCall'.to)
       /\ board[lastCall'.from].kind \in Sliders
          => \A t \in Cells : AttacksByRay(board, lastCall'.from, t)]_vars

\* after e2e4 and f7f5 the white queen has gone from d1 to h5 over the empty
\* squares e2, f3 and g4
C23_Witness ==
    /\ Accepted(lastCall)
    /\ lastCall.from = <<4, 1>> /\ lastCall.to = <<8, 5>>
    /\ board[<<8, 5>>].kind = "q" /\ board[<<4, 1>>] = None
    /\ Between(<<4, 1>>, <<8, 5>>) = {<<5, 2>>, <<6, 3>>, <<7, 4>>}
    /\ \A c \in Between(<<4, 1>>, <<8, 5>>) : board[c] = None

\* the back rank of the color: where its King and Rooks start
BackRank(color) ==
    IF color = 1 THEN 1 ELSE 8

\* the King of the color stands on `cell` of the position `b`
KingOn(b, cell, color) ==
    cell \in Cells /\ b[cell].kind = "k" /\ b[cell].color = color

\* an enemy Rook for the piece on `from` stands on `c`
EnemyRookOn(b, from, c) ==
    b[c].kind = "r" /\ b[c].color = b[from].color * (-1)

\* C24: no accepted King move removes or relocates an enemy Rook that does not
\* stand on the move's destination, or puts the King two files from its start
\* on the enemy's back rank; a King move whose destination holds an enemy Rook
\* that has never moved is rejected with the board unchanged.
C24_CastlingOwnRookOnly ==
    [][(lastCall'.op = "applyMove" /\ board[lastCall'.from].kind = "k")
       => /\ lastCall'.ok
             => /\ \A c \in Cells \ {lastCall'.to} :
                       EnemyRookOn(board, lastCall'.from, c) => board'[c] = board[c]
                /\ \A d \in {-2, 2} :
                       ~KingOn(board',
                               <<lastCall'.from[1] + d,
                                 BackRank(board[lastCall'.from].color * (-1))>>,
                               board[lastCall'.from].color)
          /\ (/\ EnemyRookOn(board, lastCall'.from, lastCall'.to)
              /\ board[lastCall'.to].number_of_moves = 0)
             => (~lastCall'.ok /\ board' = board)]_vars

\* C25: a Pawn's two-square advance is accepted only if the destination and the
\* square it passes over are both empty.
C25_PawnCannotJump ==
    [][(/\ Accepted(lastCall')
        /\ board[lastCall'.from].kind = "p"
        /\ lastCall'.from[1] = lastCall'.to[1]
        /\ abs(lastCall'.to[2] - lastCall'.from[2]) = 2)
       => /\ board[lastCall'.to] = None
          /\ board[<<lastCall'.from[1],
                     lastCall'.from[2] + board[lastCall'.from].color>>] = None]_vars

=============================================================================
